---- MODULE Spec2Model ----
(***************************************************************************)
(* The request handlers of tram/views.py as a state machine.               *)
(*                                                                         *)
(* The state is the persisted store (Document, DocumentProcessingJob,      *)
(* Report, Sentence and Mapping rows, keyed by their auto-increment pk),   *)
(* the last request handled, the response it was answered with and the     *)
(* calls the handler made.  One action per view; each action is the whole  *)
(* handler, decorator included.                                            *)
(*                                                                         *)
(* Bytes are modelled by their content: [raw |-> s] is a byte string that  *)
(* is not JSON text, [json |-> v] is the JSON text of the value v.         *)
(* Text that the code transforms character by character (names that go     *)
(* through urllib.parse.quote) is a sequence of one-character strings.     *)
(***************************************************************************)
EXTENDS Integers, Sequences, FiniteSets, TLC

VARIABLES documents, jobs, reports, sentences, mappings,
          request, response, trace, ingested

store == <<documents, jobs, reports, sentences, mappings>>
vars == <<documents, jobs, reports, sentences, mappings,
          request, response, trace, ingested>>

(* Bounds of the model. *)
MaxDocuments == 2
MaxReports == 2

(***************************************************************************)
(* Reference data and the inputs requests are drawn from.                  *)
(***************************************************************************)
Anonymous == "AnonymousUser"
Users == {"alice"}

(* AttackObject rows: immutable reference data, pk = index. *)
AttackObject == << [attack_id |-> "T1001"], [attack_id |-> "T1002"] >>

(* Keys of the models registered with ModelManager. *)
ModelRegistry == {"logreg", "nn_cls"}
ModelKeys == {"logreg", "unknown"}

DOCX_TYPE == "application/vnd.openxmlformats-officedocument.wordprocessingml.document"
MediaTypes == {"application/pdf", "text/html", DOCX_TYPE, "text/plain",
               "application/json", "image/png"}

NameA == <<"A", " ", "R">>
NameB == <<"r", "/", "2">>
FileName == <<"d", " ", "1", ".", "t", "x", "t">>

(* Canonical export documents (JSON values). *)
DocA == [name |-> NameA,
         sentences |-> << [text |-> "s1",
                           mappings |-> << [attack_id |-> "T1001", confidence |-> "100.0"] >>] >>]
DocB == [name |-> NameB,
         sentences |-> << [text |-> "s2",
                           mappings |-> << [attack_id |-> "T1002", confidence |-> "55.5"],
                                           [attack_id |-> "T1001", confidence |-> "100.0"] >>],
                          [text |-> "s1", mappings |-> << >>] >>]
(* Structurally invalid: a sentence without its text field. *)
DocNoText == [name |-> NameA,
              sentences |-> << [mappings |-> << >>] >>]
(* Well-shaped, but names a technique that is no AttackObject. *)
DocUnknownAttack == [name |-> NameA,
                     sentences |-> << [text |-> "s1",
                                       mappings |-> << [attack_id |-> "T9999", confidence |-> "1.0"] >>] >>]

JsonValues == {DocA, DocB, DocNoText, DocUnknownAttack}

(* json.dumps / JSONRenderer.render and json.loads, on modelled bytes. *)
json_dumps(v) == [json |-> v]
IsJsonText(b) == "json" \in DOMAIN b
json_loads(b) == b.json

RawHello == [raw |-> "hello"]
Contents == {RawHello} \cup {json_dumps(v) : v \in JsonValues}

(***************************************************************************)
(* urllib.parse.quote on the characters the model uses: letters, digits    *)
(* and "_.-~" are never quoted, the characters of `safe` are kept, every   *)
(* other character becomes its %XX escape.                                 *)
(***************************************************************************)
AlwaysSafe == {"A", "R", "r", "d", "t", "x", "1", "2", "."}
PercentEscape(c) == CASE c = " " -> <<"%", "2", "0">>
                      [] c = "/" -> <<"%", "2", "F">>
                      [] OTHER -> <<"%", "?", "?">>
RECURSIVE quote(_, _)
quote(string, safe) ==
    IF string = << >> THEN << >>
    ELSE (IF Head(string) \in AlwaysSafe \cup safe
             THEN << Head(string) >>
             ELSE PercentEscape(Head(string)))
         \o quote(Tail(string), safe)

(***************************************************************************)
(* The store as one value, and row selection in pk order.                  *)
(***************************************************************************)
DB == [documents |-> documents, jobs |-> jobs, reports |-> reports,
       sentences |-> sentences, mappings |-> mappings]

Pks(table) == [i \in 1..Len(table) |-> i]
SentencesOf(db, report_pk) ==
    SelectSeq(Pks(db.sentences), LAMBDA s : db.sentences[s].report = report_pk)
MappingsOf(db, sentence_pk) ==
    SelectSeq(Pks(db.mappings), LAMBDA m : db.mappings[m].sentence = sentence_pk)

RECURSIVE Flatten(_)
Flatten(seqs) == IF seqs = << >> THEN << >> ELSE Head(seqs) \o Flatten(Tail(seqs))

(* AttackObject.objects.get(attack_id=...): the pk, or 0 when there is none. *)
AttackPk(attack_id) ==
    IF \E a \in 1..Len(AttackObject) : AttackObject[a].attack_id = attack_id
    THEN CHOOSE a \in 1..Len(AttackObject) : AttackObject[a].attack_id = attack_id
    ELSE 0

(***************************************************************************)
(* ReportExportSerializer: rows <-> canonical export document.             *)
(***************************************************************************)
ReportExportSerializer_data(db, report_pk) ==
    LET ss == SentencesOf(db, report_pk)
        mapping(m) == [attack_id |-> AttackObject[db.mappings[m].attack_object].attack_id,
                       confidence |-> db.mappings[m].confidence]
        sentence(s) == [text |-> db.sentences[s].text,
                        mappings |-> [k \in 1..Len(MappingsOf(db, s)) |->
                                          mapping(MappingsOf(db, s)[k])]]
    IN [name |-> db.reports[report_pk].name,
        sentences |-> [i \in 1..Len(ss) |-> sentence(ss[i])]]

(* The field-level errors of an import document, all of them together. *)
ReportExportSerializer_errors(data) ==
    (IF "name" \in DOMAIN data THEN {} ELSE {<<"name", "required">>})
    \cup (IF "sentences" \in DOMAIN data THEN {} ELSE {<<"sentences", "required">>})
    \cup (IF "sentences" \in DOMAIN data
          THEN UNION { (IF "text" \in DOMAIN data.sentences[i]
                           THEN {} ELSE {<<"sentences", i, "text", "required">>})
                       \cup (IF "mappings" \in DOMAIN data.sentences[i]
                                THEN {} ELSE {<<"sentences", i, "mappings", "required">>})
                       : i \in 1..Len(data.sentences) }
          ELSE {})
ReportExportSerializer_is_valid(data) == ReportExportSerializer_errors(data) = {}

(* Whether every mapping of a well-shaped document names an AttackObject. *)
AttackIdsKnown(data) ==
    \A i \in 1..Len(data.sentences) :
        \A k \in 1..Len(data.sentences[i].mappings) :
            AttackPk(data.sentences[i].mappings[k].attack_id) # 0

(* save(created_by=user): one Report, its Sentences and their Mappings, in *)
(* document order, in one transaction.                                     *)
ReportExportSerializer_save(db, data, document_pk, user) ==
    LET report_pk == Len(db.reports) + 1
        n == Len(data.sentences)
        sentence_pk(i) == Len(db.sentences) + i
        rows(i) == [k \in 1..Len(data.sentences[i].mappings) |->
                       [sentence |-> sentence_pk(i),
                        attack_object |-> AttackPk(data.sentences[i].mappings[k].attack_id),
                        confidence |-> data.sentences[i].mappings[k].confidence]]
    IN [db EXCEPT
          !.reports = Append(@, [name |-> data.name, document |-> document_pk,
                                 created_by |-> user]),
          !.sentences = @ \o [i \in 1..n |-> [report |-> report_pk,
                                              text |-> data.sentences[i].text]],
          !.mappings = @ \o Flatten([i \in 1..n |-> rows(i)])]

(***************************************************************************)
(* DocumentProcessingJob.create_from_file: the uploaded bytes are stored   *)
(* as a Document and a pending job referencing it is created.              *)
(***************************************************************************)
create_from_file(db, file, user) ==
    LET document_pk == Len(db.documents) + 1
    IN [db EXCEPT
          !.documents = Append(@, [docfile |-> [name |-> file.name,
                                                content |-> file.content]]),
          !.jobs = Append(@, [document |-> document_pk, created_by |-> user,
                              status |-> "pending"])]

(* tram.report.docx.build followed by document.save: the artifact bytes. *)
docx_build(data) == [docx |-> data]

(* ModelManager.get_model_metadata: raises ValueError for an unknown key. *)
KnownModel(model_key) == model_key \in ModelRegistry
get_model_metadata(model_key) == [name |-> model_key]

(***************************************************************************)
(* Responses.  A handler yields the store it leaves, its response and the  *)
(* calls it made.  An exception that no handler catches leaves the store   *)
(* as it was and is answered 500 by the framework.                         *)
(***************************************************************************)
Result(db, resp, calls) == [db |-> db, response |-> resp, trace |-> calls]
HttpResponse(status, content_type, body) ==
    [status |-> status, headers |-> [Content_Type |-> content_type], body |-> body]
Attachment(resp, filename, in_quotes) ==
    [resp EXCEPT !.headers =
        [Content_Type |-> resp.headers.Content_Type,
         Content_Disposition |-> [disposition |-> "attachment", filename |-> filename,
                                  in_quotes |-> in_quotes]]]
Http404(message) == HttpResponse(404, "text/html", [exception |-> "Http404", message |-> message])
Uncaught(exception) == HttpResponse(500, "text/html", [exception |-> exception])
render(template, context) ==
    HttpResponse(200, "text/html", [template |-> template, context |-> context])
NoResponse == HttpResponse(0, "", [none |-> TRUE])

(* @login_required: an anonymous request is redirected to the login page   *)
(* and the view is not run.                                                *)
login_required(req, db, view_result) ==
    IF req.user = Anonymous
    THEN Result(db, HttpResponse(302, "text/html", [redirect |-> "login"]), << >>)
    ELSE view_result

(***************************************************************************)
(* upload                                                                  *)
(***************************************************************************)
IngestTypes == {"application/pdf", "text/html", DOCX_TYPE, "text/plain"}
JsonTypes == {"application/json"}

(* Mutants of upload_path: text/plain left out of the ingest tuple; the    *)
(* JSON type routed to document ingestion.                                 *)
upload_path_without_plain(file_content_type) ==
    IF file_content_type \in IngestTypes \ {"text/plain"} THEN "DOCUMENT_INGEST"
    ELSE IF file_content_type \in JsonTypes THEN "JSON_IMPORT"
    ELSE "UNSUPPORTED"
upload_path_json_ingested(file_content_type) ==
    IF file_content_type \in IngestTypes \cup JsonTypes THEN "DOCUMENT_INGEST"
    ELSE "UNSUPPORTED"

(* The if / elif / else chain over the declared media type. *)
upload_path(file_content_type) ==
    IF file_content_type \in IngestTypes THEN "DOCUMENT_INGEST"
    ELSE IF file_content_type \in JsonTypes THEN "JSON_IMPORT"
    ELSE "UNSUPPORTED"

(* Mutant of upload_response: the doc-id is left out. *)
upload_response_without_doc_id(db, dpj) ==
    IF dpj # 0
    THEN ("message" :> "File saved for processing.") @@ ("job-id" :> dpj)
    ELSE ("message" :> "File saved for processing.")

(* The response body: the message, and the ids when a job was created      *)
(* (dpj is the job's pk, 0 for None).                                      *)
upload_response(db, dpj) ==
    IF dpj # 0
    THEN ("message" :> "File saved for processing.")
         @@ ("job-id" :> dpj) @@ ("doc-id" :> db.jobs[dpj].document)
    ELSE ("message" :> "File saved for processing.")
JsonResponse(data) == HttpResponse(200, "application/json", json_dumps(data))
HttpResponseBadRequest(body) == HttpResponse(400, "text/html", body)

(* The elif branch: json.loads, then the serializer. *)
upload_json(req, db, file) ==
    IF ~IsJsonText(file.content)
    THEN Result(db, Uncaught("JSONDecodeError"), << "json.loads" >>)
    ELSE LET json_data == json_loads(file.content)
             errors == ReportExportSerializer_errors(json_data)
         IN IF ~ReportExportSerializer_is_valid(json_data)
            THEN Result(db, HttpResponseBadRequest([errors |-> errors]),
                        << "json.loads", "ReportExportSerializer", "is_valid" >>)
            ELSE IF ~AttackIdsKnown(json_data) /\ req.dangling = "is_valid"
            THEN Result(db, HttpResponseBadRequest(
                                [errors |-> {<<"attack_id", "does_not_exist">>}]),
                        << "json.loads", "ReportExportSerializer", "is_valid" >>)
            ELSE IF ~AttackIdsKnown(json_data)
            THEN Result(db, Uncaught("DoesNotExist"),
                        << "json.loads", "ReportExportSerializer", "is_valid", "save" >>)
            ELSE Result(ReportExportSerializer_save(db, json_data, 0, req.user),
                        JsonResponse(upload_response(db, 0)),
                        << "json.loads", "ReportExportSerializer", "is_valid", "save" >>)

(* Mutant of upload_file: the job is created before the type is rejected. *)
upload_file_job_before_reject(req, db, file) ==
    CASE upload_path(file.content_type) = "DOCUMENT_INGEST" ->
            LET saved == create_from_file(db, file, req.user)
                dpj == Len(saved.jobs)
            IN Result(saved, JsonResponse(upload_response(saved, dpj)),
                      << "create_from_file" >>)
      [] upload_path(file.content_type) = "JSON_IMPORT" -> upload_json(req, db, file)
      [] OTHER -> Result(create_from_file(db, file, req.user),
                         HttpResponseBadRequest([text |-> "Unsupported file type"]),
                         << "create_from_file" >>)

upload_file(req, db, file) ==
    CASE upload_path(file.content_type) = "DOCUMENT_INGEST" ->
            LET saved == create_from_file(db, file, req.user)
                dpj == Len(saved.jobs)
            IN Result(saved, JsonResponse(upload_response(saved, dpj)),
                      << "create_from_file" >>)
      [] upload_path(file.content_type) = "JSON_IMPORT" -> upload_json(req, db, file)
      [] OTHER -> Result(db, HttpResponseBadRequest([text |-> "Unsupported file type"]), << >>)

(* Mutant of upload: the file part is read before the method is checked. *)
upload_file_part_first(req, db) ==
    IF req.FILES = {}
    THEN Result(db, Uncaught("MultiValueDictKeyError"), << >>)
    ELSE IF req.method # "POST"
    THEN Result(db, HttpResponse(405, "text/html", [text |-> "Request method must be POST"]),
                << >>)
    ELSE upload_file(req, db, CHOOSE f \in req.FILES : TRUE)

upload(req, db) ==
    IF req.method # "POST"
    THEN Result(db, HttpResponse(405, "text/html", [text |-> "Request method must be POST"]),
                << >>)
    ELSE IF req.FILES = {}
    THEN Result(db, Uncaught("MultiValueDictKeyError"), << >>)
    ELSE upload_file(req, db, CHOOSE f \in req.FILES : TRUE)

(***************************************************************************)
(* ReportViewSet.json, ReportViewSet.docx                                  *)
(***************************************************************************)
(* self.get_object(): whether the row named by pk exists (404 otherwise). *)
get_object(db, pk) == pk \in 1..Len(db.reports)

(* Mutant of json_export_data: the report is exported without sentences. *)
json_export_data_without_sentences(db, pk) == [name |-> db.reports[pk].name]

(* serializer.data of the ReportExportSerializer built on the report. *)
json_export_data(db, pk) == ReportExportSerializer_data(db, pk)

ReportViewSet_json(req, db) ==
    IF ~get_object(db, req.pk)
    THEN Result(db, Http404("Not found."), << "get_object" >>)
    ELSE Result(db,
                Attachment(HttpResponse(200, "application/json",
                                        json_dumps(json_export_data(db, req.pk))),
                           quote(db.reports[req.pk].name, {}) \o <<".", "j", "s", "o", "n">>,
                           TRUE),
                << "get_object", "ReportExportSerializer" >>)

ReportViewSet_docx(req, db) ==
    IF ~get_object(db, req.pk)
    THEN Result(db, Http404("Not found."), << "get_object" >>)
    ELSE Result(db,
                Attachment(HttpResponse(200, DOCX_TYPE,
                                        docx_build(ReportExportSerializer_data(db, req.pk))),
                           quote(db.reports[req.pk].name, {}) \o <<".", "d", "o", "c", "x">>,
                           TRUE),
                << "get_object", "ReportExportSerializer", "docx.build" >>)

(***************************************************************************)
(* ml_model_detail, analyze, download_document                             *)
(***************************************************************************)
ml_model_detail(req, db) ==
    IF ~KnownModel(req.model_key)
    THEN Result(db, Http404("Model does not exists"), << "get_model_metadata" >>)
    ELSE Result(db, render("model_detail.html",
                           [model |-> get_model_metadata(req.model_key)]),
                << "get_model_metadata" >>)

analyze(req, db) ==
    IF req.pk \notin 1..Len(db.reports)
    THEN Result(db, Uncaught("DoesNotExist"), << "Report.objects.get" >>)
    ELSE Result(db, render("analyze.html",
                           [report_id |-> req.pk, report_name |-> db.reports[req.pk].name,
                            attack_techniques |-> AttackObject]),
                << "Report.objects.get" >>)

(* Mutant of download_response: no Content-Disposition header is set. *)
download_response_without_disposition(docfile) ==
    HttpResponse(200, "application/octet-stream", docfile.content)

(* The body of the with block: the response built from the opened file. *)
download_response(docfile) ==
    Attachment(HttpResponse(200, "application/octet-stream", docfile.content),
               quote(docfile.name, {"/"}), FALSE)

download_document(req, db) ==
    IF req.pk \notin 1..Len(db.documents)
    THEN Result(db, Uncaught("DoesNotExist"), << "Document.objects.get" >>)
    ELSE IF ~req.file_readable
    THEN Result(db, Http404("File does not exist"), << "Document.objects.get", "open" >>)
    ELSE Result(db, download_response(db.documents[req.pk].docfile),
                << "Document.objects.get", "open" >>)

(***************************************************************************)
(* Requests.  file_readable is the outcome of opening the stored file and  *)
(* dangling is where a reference to a missing AttackObject is rejected     *)
(* (by is_valid or by save); both are chosen by the environment.           *)
(***************************************************************************)
Req(op, user, method, files, pk, model_key, file_readable, dangling) ==
    [op |-> op, user |-> user, method |-> method, FILES |-> files, pk |-> pk,
     model_key |-> model_key, file_readable |-> file_readable, dangling |-> dangling]
Get(op, user, pk) == Req(op, user, "GET", {}, pk, "", TRUE, "is_valid")

UploadedFile(content_type, content) ==
    [name |-> FileName, content_type |-> content_type, content |-> content]

(* The files a client can send: under any media type, bytes that are not   *)
(* JSON and bytes that are; under application/json, each of the contents;  *)
(* and the body of the JSON export it has just received.                   *)
UploadedFiles ==
    {UploadedFile(ct, c) : ct \in MediaTypes, c \in {RawHello, json_dumps(DocA)}}
    \cup {UploadedFile("application/json", c) : c \in Contents}
    \cup (IF request.op = "json" /\ response.status = 200
          THEN {UploadedFile("application/json", response.body)}
          ELSE {})

UploadRequests ==
    {Req("upload", u, m, {f}, 0, "", TRUE, d) :
        u \in Users, m \in {"GET", "POST"}, f \in UploadedFiles,
        d \in {"is_valid", "save"}}
    \cup {Req("upload", u, m, {}, 0, "", TRUE, "is_valid") :
        u \in Users \cup {Anonymous}, m \in {"GET", "POST"}}
    \cup {Req("upload", Anonymous, "POST", {UploadedFile("text/plain", RawHello)},
              0, "", TRUE, "is_valid")}

(* Only a request that reaches save with a dangling reference depends on   *)
(* where it is rejected.                                                   *)
DanglingMatters(req) ==
    /\ req.method = "POST"
    /\ \E f \in req.FILES :
          /\ f.content_type \in JsonTypes
          /\ IsJsonText(f.content)
          /\ ReportExportSerializer_is_valid(json_loads(f.content))
          /\ ~AttackIdsKnown(json_loads(f.content))

(***************************************************************************)
(* The state machine.                                                      *)
(***************************************************************************)
Init ==
    /\ documents = << >>
    /\ jobs = << >>
    /\ reports = << >>
    /\ sentences = << >>
    /\ mappings = << >>
    /\ request = Req("none", Anonymous, "GET", {}, 0, "", TRUE, "is_valid")
    /\ response = NoResponse
    /\ trace = << >>
    /\ ingested = 0

(* The media types the specification lists for the document-ingest path. *)
DocumentMediaTypes == {"application/pdf", "text/html", DOCX_TYPE, "text/plain"}
IngestAnswered200(req, resp) ==
    /\ req.op = "upload"
    /\ \E f \in req.FILES : f.content_type \in DocumentMediaTypes
    /\ resp.status = 200

(* One request, handled to its response. *)
Handle(req, res) ==
    /\ Len(res.db.documents) <= MaxDocuments
    /\ Len(res.db.reports) <= MaxReports
    /\ documents' = res.db.documents
    /\ jobs' = res.db.jobs
    /\ reports' = res.db.reports
    /\ sentences' = res.db.sentences
    /\ mappings' = res.db.mappings
    /\ request' = req
    /\ response' = res.response
    /\ trace' = res.trace
    /\ ingested' = ingested + (IF IngestAnswered200(req, res.response) THEN 1 ELSE 0)

UploadRequest ==
    \E req \in UploadRequests :
        /\ req.dangling = "save" => DanglingMatters(req)
        /\ Handle(req, login_required(req, DB, upload(req, DB)))

JsonExportRequest ==
    \E u \in Users \cup {Anonymous}, pk \in 1..(Len(reports) + 1) :
        Handle(Get("json", u, pk), ReportViewSet_json(Get("json", u, pk), DB))

DocxExportRequest ==
    \E u \in Users \cup {Anonymous}, pk \in 1..(Len(reports) + 1) :
        Handle(Get("docx", u, pk), ReportViewSet_docx(Get("docx", u, pk), DB))

MlModelDetailRequest ==
    \E u \in Users \cup {Anonymous}, key \in ModelKeys :
        LET req == Req("ml_model_detail", u, "GET", {}, 0, key, TRUE, "is_valid")
        IN Handle(req, login_required(req, DB, ml_model_detail(req, DB)))

AnalyzeRequest ==
    \E u \in Users \cup {Anonymous}, pk \in 1..(Len(reports) + 1) :
        Handle(Get("analyze", u, pk),
               login_required(Get("analyze", u, pk), DB, analyze(Get("analyze", u, pk), DB)))

DownloadRequest ==
    \E u \in Users \cup {Anonymous}, pk \in 1..(Len(documents) + 1), readable \in BOOLEAN :
        LET req == Req("download_document", u, "GET", {}, pk, "", readable, "is_valid")
        IN Handle(req, login_required(req, DB, download_document(req, DB)))

Next ==
    \/ UploadRequest
    \/ JsonExportRequest
    \/ DocxExportRequest
    \/ MlModelDetailRequest
    \/ AnalyzeRequest
    \/ DownloadRequest

Spec == Init /\ [][Next]_vars

(***************************************************************************)
(* Properties.                                                             *)
(***************************************************************************)
Range(seq) == {seq[i] : i \in 1..Len(seq)}
IsPrefix(old, new) == Len(old) <= Len(new) /\ SubSeq(new, 1, Len(old)) = old

(* The upload view is run on req (the decorator let it through). *)
UploadRuns(req) == req.op = "upload" /\ req.user # Anonymous
(* The upload view is run on a POST carrying the file f. *)
Posted(req, f) == UploadRuns(req) /\ req.method = "POST" /\ f \in req.FILES

TookIngest(calls) == "create_from_file" \in Range(calls)
TookImport(calls) == "json.loads" \in Range(calls)
AnsweredUnsupported(resp) ==
    resp.status = 400 /\ resp.body = [text |-> "Unsupported file type"]

(* A report as the round trip sees it: its name, its sentence texts in     *)
(* order and each sentence's attack ids in order, read from the rows.      *)
Project(db, pk) ==
    [name |-> db.reports[pk].name,
     sentences |->
        [i \in 1..Len(SentencesOf(db, pk)) |->
            LET s == SentencesOf(db, pk)[i]
            IN [text |-> db.sentences[s].text,
                attack_ids |-> [k \in 1..Len(MappingsOf(db, s)) |->
                    AttackObject[db.mappings[MappingsOf(db, s)[k]].attack_object].attack_id]]]]

(* C1: a POST upload takes exactly one path by its declared media type:    *)
(* the four document types call create_from_file and nothing of the import *)
(* path, application/json runs json.loads (and the serializer on the       *)
(* parsed body) and never create_from_file, and every other type is        *)
(* answered "Unsupported file type" having taken neither path.             *)
C1_UploadTakesExactlyOnePath ==
    \A f \in request.FILES :
        Posted(request, f) =>
            /\ f.content_type \in DocumentMediaTypes =>
                  /\ TookIngest(trace) /\ ~TookImport(trace)
                  /\ ~AnsweredUnsupported(response)
            /\ f.content_type = "application/json" =>
                  /\ TookImport(trace) /\ ~TookIngest(trace)
                  /\ ~AnsweredUnsupported(response)
                  /\ IsJsonText(f.content) => "ReportExportSerializer" \in Range(trace)
            /\ f.content_type \notin DocumentMediaTypes \cup {"application/json"} =>
                  /\ ~TookIngest(trace) /\ ~TookImport(trace)
                  /\ AnsweredUnsupported(response)

C1_Witness ==
    /\ \E f \in request.FILES : Posted(request, f) /\ f.content_type = "text/plain"
    /\ TookIngest(trace)
    /\ Len(documents) = 2

(* C2: a POST upload whose media type is neither a document type nor       *)
(* application/json is answered 400 and leaves every table as it was.      *)
C2_UnsupportedRejectedStoreUnchanged ==
    [][\A f \in request'.FILES :
          (Posted(request', f)
           /\ f.content_type \notin DocumentMediaTypes \cup {"application/json"})
          => (response'.status = 400 /\ store' = store)]_vars

C2_Witness ==
    /\ \E f \in request.FILES : Posted(request, f) /\ f.content_type = "image/png"
    /\ response.status = 400
    /\ Len(reports) = 1

(* A body that is no valid canonical export document: not JSON text, or    *)
(* JSON with a structural violation.                                       *)
InvalidImportBody(content) ==
    ~IsJsonText(content) \/ ~ReportExportSerializer_is_valid(json_loads(content))

(* C3: a POST upload of type application/json whose body is not a valid    *)
(* canonical export document (unparsable bodies included) is answered 400  *)
(* and leaves the store as it was.                                         *)
C3_InvalidImportAnswered400 ==
    [][\A f \in request'.FILES :
          (Posted(request', f) /\ f.content_type = "application/json"
           /\ InvalidImportBody(f.content))
          => (response'.status = 400 /\ store' = store)]_vars

(* C4: a POST upload of a document type is answered 200 with the message,  *)
(* the pk of the job it created and the pk of the Document that job        *)
(* references; that Document holds the uploaded bytes and the job is       *)
(* pending.  A JSON import that created its Report is answered 200 with    *)
(* the message alone.                                                      *)
C4_IngestResponseNamesJobAndDocument ==
    [][\A f \in request'.FILES :
          /\ (Posted(request', f) /\ f.content_type \in DocumentMediaTypes) =>
                /\ response'.status = 200
                /\ IsJsonText(response'.body)
                /\ LET body == json_loads(response'.body)
                   IN /\ DOMAIN body = {"message", "job-id", "doc-id"}
                      /\ body["message"] = "File saved for processing."
                      /\ Len(jobs') = Len(jobs) + 1
                      /\ Len(documents') = Len(documents) + 1
                      /\ body["job-id"] = Len(jobs')
                      /\ body["doc-id"] = jobs'[Len(jobs')].document
                      /\ body["doc-id"] = Len(documents')
                      /\ documents'[body["doc-id"]].docfile.content = f.content
                      /\ jobs'[body["job-id"]].status = "pending"
          /\ (Posted(request', f) /\ f.content_type = "application/json"
              /\ Len(reports') = Len(reports) + 1) =>
                /\ response'.status = 200
                /\ IsJsonText(response'.body)
                /\ DOMAIN json_loads(response'.body) = {"message"}
                /\ json_loads(response'.body)["message"] = "File saved for processing."]_vars

C4_Witness ==
    /\ \E f \in request.FILES :
          /\ Posted(request, f) /\ f.content_type = "application/pdf"
          /\ documents[Len(documents)].docfile.content = f.content
    /\ response.status = 200
    /\ "job-id" \in DOMAIN json_loads(response.body)
    /\ Len(reports) = 1

(* The download view is run on the request. *)
DownloadRuns(req) == req.op = "download_document" /\ req.user # Anonymous

(* C5: download_document of an id that names no Document row is answered   *)
(* 404, as it is when the row exists and its file is missing.              *)
C5_MissingDocumentRowAnswered404 ==
    (DownloadRuns(request) /\ request.pk \notin 1..Len(documents))
    => response.status = 404

(* C6: download_document of an existing Document returns the stored bytes  *)
(* as application/octet-stream with a Content-Disposition attachment       *)
(* header when the file opens, and 404 when opening it fails; either way   *)
(* every table is left as it was.  The body is the stored content in the   *)
(* state the request finds and no retrieval changes that state, so two     *)
(* successive retrievals of an id return the same bytes.                   *)
C6_DownloadReturnsStoredBytes ==
    [][(DownloadRuns(request') /\ request'.pk \in 1..Len(documents)) =>
          /\ store' = store
          /\ request'.file_readable =>
                /\ response'.status = 200
                /\ response'.body = documents[request'.pk].docfile.content
                /\ response'.headers.Content_Type = "application/octet-stream"
                /\ "Content_Disposition" \in DOMAIN response'.headers
                /\ response'.headers.Content_Disposition.disposition = "attachment"
          /\ ~request'.file_readable => response'.status = 404]_vars

C6_Witness ==
    /\ DownloadRuns(request) /\ request.pk \in 1..Len(documents)
    /\ request.file_readable
    /\ response.status = 200
    /\ request.pk = 2
    /\ response.body = json_dumps(DocA)
    /\ documents[1].docfile.content = RawHello

(* C7: the body of a JSON export of a stored report R, uploaded as         *)
(* application/json, is accepted with 200 and creates exactly one Report,  *)
(* equal to R in name, sentence texts in order and attack ids per sentence *)
(* in order; R and every other row that existed are left as they were.     *)
C7_ExportImportRoundTrip ==
    [][\A f \in request'.FILES :
          (/\ request.op = "json" /\ response.status = 200
           /\ Posted(request', f)
           /\ f.content_type = "application/json"
           /\ f.content = response.body)
          => /\ response'.status = 200
             /\ Len(reports') = Len(reports) + 1
             /\ Project(DB', Len(reports')) = Project(DB, request.pk)
             /\ Project(DB', request.pk) = Project(DB, request.pk)
             /\ IsPrefix(reports, reports')
             /\ IsPrefix(sentences, sentences')
             /\ IsPrefix(mappings, mappings')
             /\ documents' = documents /\ jobs' = jobs]_vars

C7_Witness ==
    /\ \E f \in request.FILES, r \in 1..(Len(reports) - 1) :
          /\ Posted(request, f)
          /\ f.content = json_dumps(json_export_data(DB, r))
          /\ Project(DB, r) = Project(DB, Len(reports))
          /\ Len(Project(DB, r).sentences) = 2
          /\ Len(Project(DB, r).sentences[1].attack_ids) = 2
    /\ response.status = 200

(* C8: every operation that names a missing Report or Model is answered    *)
(* 404: ml_model_detail with an unknown key, the JSON and DOCX exports and *)
(* analyze with the pk of no Report.                                       *)
C8_MissingReportOrModelAnswered404 ==
    /\ (request.op = "ml_model_detail" /\ request.user # Anonymous
        /\ ~KnownModel(request.model_key)) => response.status = 404
    /\ (request.op \in {"json", "docx"} /\ request.pk \notin 1..Len(reports))
       => response.status = 404
    /\ (request.op = "analyze" /\ request.user # Anonymous
        /\ request.pk \notin 1..Len(reports)) => response.status = 404

(* C9: an upload request whose method is not POST is answered 405 whether  *)
(* or not it carries a file part, and creates nothing.                     *)
C9_NonPostAnswered405 ==
    [][(UploadRuns(request') /\ request'.method # "POST")
          => (response'.status = 405 /\ store' = store)]_vars

C9_Witness ==
    /\ UploadRuns(request) /\ request.method = "GET" /\ request.FILES = {}
    /\ response.status = 405
    /\ Len(documents) = 1

(* C10: the jobs, the Documents and the document-ingest uploads answered   *)
(* 200 are equal in number; every job references one Document and no two   *)
(* the same; an upload answered 400 or 405 and a JSON import add no job    *)
(* and no Document.                                                        *)
C10_JobsDocumentsIngestsAgree ==
    [][/\ Len(jobs') = Len(documents')
       /\ Len(documents') = ingested'
       /\ \A j \in 1..Len(jobs') : jobs'[j].document \in 1..Len(documents')
       /\ \A j, k \in 1..Len(jobs') : jobs'[j].document = jobs'[k].document => j = k
       /\ (request'.op = "upload"
           /\ (response'.status \in {400, 405}
               \/ \E f \in request'.FILES : f.content_type = "application/json"))
          => (jobs' = jobs /\ documents' = documents)]_vars

C10_Witness ==
    /\ Len(jobs) = 2
    /\ ingested = 2
    /\ request.op = "upload" /\ response.status = 400
    /\ Len(reports) = 1

====
